---- MODULE Spec2Model ----
(***************************************************************************)
(* Model of AgentRoutingService (src/agent-routing-service.js): the        *)
(* routing-defaults enrichment, the business-hours predicate, the inbound  *)
(* and outbound fallback chains and the concurrent-call capacity check,    *)
(* run against a Supabase store whose queries can succeed, report an       *)
(* error or reject.                                                        *)
(*                                                                         *)
(* JavaScript values.  An object is a function from its keys to values; a  *)
(* key that is absent (or holds null: `||` and the spread treat both the   *)
(* same for the keys modelled here) is absent from the DOMAIN.  Strings    *)
(* that the code only tests for equality are TLA+ strings.  HH:MM strings, *)
(* which the code orders with >= and <=, are sequences of UTF-16 code      *)
(* units, so that the comparison is the lexicographic one JavaScript       *)
(* performs.  Arrays are sequences.                                        *)
(***************************************************************************)
EXTENDS Integers, Sequences, FiniteSets, TLC

VARIABLES
    ai_agents,      \* table ai_agents: sequence of rows, in creation order (oldest first)
    phone_numbers,  \* table phone_numbers: set of assignment rows
    call_logs,      \* table call_logs: sequence of rows
    now,            \* the process's wall clock: [day, hour, minute]
    route,          \* the routeIncomingCall / routeOutboundCall invocation in flight
    cap,            \* the canAgentHandleCall invocations in flight, per admission
    pure            \* the last call of a pure method: [fn, args, ret]

vars == <<ai_agents, phone_numbers, call_logs, now, route, cap, pure>>

-----------------------------------------------------------------------------
(* JavaScript helpers *)

\* the value null / undefined
null == [js |-> "null"]

\* String.prototype comparison a < b: lexicographic on code units, a proper
\* prefix being smaller
RECURSIVE StrLess(_, _)
StrLess(a, b) ==
    IF b = <<>> THEN FALSE
    ELSE IF a = <<>> THEN TRUE
    ELSE IF a[1] < b[1] THEN TRUE
    ELSE IF a[1] > b[1] THEN FALSE
    ELSE StrLess(Tail(a), Tail(b))

\* a >= b and a <= b on strings
StrGeq(a, b) == ~StrLess(a, b)
StrLeq(a, b) == ~StrLess(b, a)

\* Array.prototype.includes
Includes(arr, x) == \E i \in 1..Len(arr) : arr[i] = x

\* obj.k || dflt for a string-valued key: absent, null and '' are falsy
OrString(obj, k, dflt) ==
    IF k \in DOMAIN obj /\ Len(obj[k]) # 0 THEN obj[k] ELSE dflt

\* obj.k || dflt for an array-valued key: absent and null are falsy, [] is truthy
OrArray(obj, k, dflt) ==
    IF k \in DOMAIN obj THEN obj[k] ELSE dflt

\* obj.k || dflt for a number-valued key: absent, null and 0 are falsy
OrNumber(obj, k, dflt) ==
    IF k \in DOMAIN obj /\ obj[k] # 0 THEN obj[k] ELSE dflt

\* now.toTimeString().slice(0, 5): the zero-padded "HH:MM" of the local time
\* (code units: '0' is 48, ':' is 58)
HHMM(h, m) == <<48 + (h \div 10), 48 + (h % 10), 58, 48 + (m \div 10), 48 + (m % 10)>>

\* the literals of the source
T0900 == HHMM(9, 0)
T1700 == HHMM(17, 0)
MonToFri == <<1, 2, 3, 4, 5>>

-----------------------------------------------------------------------------
(* The pure methods *)

RoutingFields ==
    {"call_direction", "timezone", "business_hours_start", "business_hours_end",
     "business_days"}

\* this.defaultAgent, by value
defaultAgent ==
    [id |-> "default", name |-> "Default AI Agent", agent_type |-> "general",
     is_active |-> TRUE, max_concurrent_calls |-> 10,
     call_direction |-> "inbound", timezone |-> "America/New_York",
     business_hours_start |-> T0900, business_hours_end |-> T1700,
     business_days |-> MonToFri]

MutEnhanceNoSpread(agent) ==
    IF agent = null THEN null
    ELSE [k \in RoutingFields |->
            CASE k = "call_direction"       -> OrString(agent, k, "inbound")
              [] k = "timezone"             -> OrString(agent, k, "America/New_York")
              [] k = "business_hours_start" -> OrString(agent, k, T0900)
              [] k = "business_hours_end"   -> OrString(agent, k, T1700)
              [] k = "business_days"        -> OrArray(agent, k, MonToFri)]

\* enhanceAgentWithDefaults(agent): { ...agent, five keys overridden }
enhanceAgentWithDefaults(agent) ==
    IF agent = null THEN null
    ELSE [k \in DOMAIN agent \cup RoutingFields |->
            CASE k = "call_direction"       -> OrString(agent, k, "inbound")
              [] k = "timezone"             -> OrString(agent, k, "America/New_York")
              [] k = "business_hours_start" -> OrString(agent, k, T0900)
              [] k = "business_hours_end"   -> OrString(agent, k, T1700)
              [] k = "business_days"        -> OrArray(agent, k, MonToFri)
              [] OTHER                      -> agent[k]]

MutAvailableExclusiveEnd(agent, currentDay, currentTime) ==
    LET businessDays == OrArray(agent, "business_days", MonToFri)
        startTime == OrString(agent, "business_hours_start", T0900)
        endTime == OrString(agent, "business_hours_end", T1700)
    IN  IF ~Includes(businessDays, currentDay) THEN FALSE
        ELSE StrGeq(currentTime, startTime) /\ StrLess(currentTime, endTime)

\* isAgentAvailable(agent, currentDay, currentTime)
isAgentAvailable(agent, currentDay, currentTime) ==
    LET businessDays == OrArray(agent, "business_days", MonToFri)
        startTime == OrString(agent, "business_hours_start", T0900)
        endTime == OrString(agent, "business_hours_end", T1700)
    IN  IF ~Includes(businessDays, currentDay) THEN FALSE
        ELSE StrGeq(currentTime, startTime) /\ StrLeq(currentTime, endTime)

-----------------------------------------------------------------------------
(* The Supabase store.  A query resolves to {data, error}, or rejects. *)

Outcomes == {"ok", "error", "throw"}

\* the error object of a failed query, and of .single() on zero or several rows
StoreError == [message |-> "store error"]
NotSingle == [message |-> "PGRST116"]

Response(data, error) == [data |-> data, error |-> error]

\* what a query resolves to under outcome o ("ok" or "error"), rows being
\* what the query selects
Resolve(o, rows) ==
    IF o = "ok" THEN Response(rows, null) ELSE Response(null, StoreError)

\* .single(): the one row selected, or an error
Single(o, rows) ==
    IF o # "ok" THEN Response(null, StoreError)
    ELSE IF Cardinality(rows) = 1 THEN Response(CHOOSE r \in rows : TRUE, null)
    ELSE Response(null, NotSingle)

AgentRows == {ai_agents[i] : i \in 1..Len(ai_agents)}

\* the ai_agents row with this id, or null: the embedded resource ai_agents (*)
AgentOf(id) ==
    IF \E a \in AgentRows : a.id = id
    THEN CHOOSE a \in AgentRows : a.id = id
    ELSE null

\* from('phone_numbers').select('*, ai_agents (*)').eq('phone_number', n)
\*   .eq('is_active', true).single()
SelectAssignment(o, n) ==
    Single(o, {[phone_number |-> r.phone_number, is_active |-> r.is_active,
                agent_id |-> r.agent_id, ai_agents |-> AgentOf(r.agent_id)] :
               r \in {x \in phone_numbers : x.phone_number = n /\ x.is_active}})

\* from('ai_agents').select('*').eq('twilio_phone_number', n)
\*   .eq('is_active', true).single()
SelectPrimary(o, n) ==
    Single(o, {a \in AgentRows :
                /\ "twilio_phone_number" \in DOMAIN a
                /\ a.twilio_phone_number = n
                /\ a.is_active})

\* rows[from..1] reversed: the rows of a table by created_at, newest first
RECURSIVE NewestFirst(_)
NewestFirst(rows) ==
    IF rows = <<>> THEN <<>>
    ELSE <<rows[Len(rows)]>> \o NewestFirst(SubSeq(rows, 1, Len(rows) - 1))

\* from('ai_agents').select('*').eq('is_active', true)
\*   .order('created_at', { ascending: false })
SelectActive(o) ==
    Resolve(o, SelectSeq(NewestFirst(ai_agents), LAMBDA a : a.is_active))

\* from('ai_agents').select('*').eq('id', id).eq('is_active', true).single()
SelectById(o, id) ==
    Single(o, {a \in AgentRows : a.id = id /\ a.is_active})

\* Array.prototype.find: the first element satisfying Test, or null (undefined)
Find(arr, Test(_)) ==
    LET hits == SelectSeq(arr, Test)
    IN  IF hits = <<>> THEN null ELSE hits[1]

\* Array.prototype.map(agent => this.enhanceAgentWithDefaults(agent))
MapEnhance(arr) == [i \in 1..Len(arr) |-> enhanceAgentWithDefaults(arr[i])]

-----------------------------------------------------------------------------
(* Objects handed to callers.  this.defaultAgent is one object, built once *)
(* by the constructor; every enhanceAgentWithDefaults call in a lookup     *)
(* helper builds a new one.                                                *)

thisDefaultAgent == [ref |-> "this.defaultAgent", value |-> defaultAgent]
NewObject(v) == [ref |-> "new", value |-> v]

InboundCapable(agent) == agent.call_direction = "inbound" \/ agent.call_direction = "both"
OutboundCapable(agent) == agent.call_direction = "outbound" \/ agent.call_direction = "both"
Capable(agent, callDirection) ==
    agent.call_direction = callDirection \/ agent.call_direction = "both"

\* what a helper returns for the object it found: null stays null
Found(agent) == IF agent = null THEN null ELSE NewObject(agent)

-----------------------------------------------------------------------------
(* The lookup helpers, from the resolution of their query to their return. *)
(* A rejected query ("throw") lands in the helper's catch, which returns   *)
(* null.                                                                   *)

MutAssignmentHitInboundOnly(resp) ==
    /\ resp.error = null
    /\ resp.data # null
    /\ resp.data.ai_agents # null
    /\ resp.data.ai_agents.is_active
    /\ InboundCapable(enhanceAgentWithDefaults(resp.data.ai_agents))

\* getAgentByPhoneNumber, lines 126-129: the assignment row names an active agent
AssignmentHit(resp) ==
    /\ resp.error = null
    /\ resp.data # null
    /\ resp.data.ai_agents # null
    /\ resp.data.ai_agents.is_active

\* getAgentByPhoneNumber, lines 139-144: after the primary-number query
PrimaryResult(o, phoneNumber) ==
    IF o = "throw" THEN null
    ELSE LET resp == SelectPrimary(o, phoneNumber)
         IN  IF resp.error = null /\ resp.data # null
             THEN Found(enhanceAgentWithDefaults(resp.data))
             ELSE null

MutBusinessHoursNoAfterHours(o, callDirection) ==
    IF o = "throw" THEN null
    ELSE LET resp == SelectActive(o)
         IN  IF resp.error # null THEN null
             ELSE LET enhancedAgents ==
                          SelectSeq(MapEnhance(resp.data),
                                    LAMBDA a : Capable(a, callDirection))
                  IN  Found(Find(enhancedAgents,
                                 LAMBDA a : isAgentAvailable(a, now.day,
                                                             HHMM(now.hour, now.minute))))

\* getAgentByBusinessHours(callDirection), lines 156-198
getAgentByBusinessHours(o, callDirection) ==
    IF o = "throw" THEN null
    ELSE LET currentDay == now.day
             currentTime == HHMM(now.hour, now.minute)
             resp == SelectActive(o)
         IN  IF resp.error # null THEN null
             ELSE LET enhancedAgents ==
                          SelectSeq(MapEnhance(resp.data),
                                    LAMBDA a : Capable(a, callDirection))
                      open == Find(enhancedAgents,
                                   LAMBDA a : isAgentAvailable(a, currentDay, currentTime))
                  IN  IF open # null THEN Found(open)
                      ELSE Found(Find(enhancedAgents,
                                      LAMBDA a : a.agent_type = "after_hours"))

\* getActiveInboundAgent, lines 223-251
getActiveInboundAgent(o) ==
    IF o = "throw" THEN null
    ELSE LET resp == SelectActive(o)
         IN  IF resp.error # null THEN null
             ELSE Found(Find(MapEnhance(resp.data), InboundCapable))

\* getActiveOutboundAgent, lines 259-287
getActiveOutboundAgent(o) ==
    IF o = "throw" THEN null
    ELSE LET resp == SelectActive(o)
         IN  IF resp.error # null THEN null
             ELSE Found(Find(MapEnhance(resp.data), OutboundCapable))

\* getAgentById(agentId), lines 295-311
getAgentById(o, agentId) ==
    IF o = "throw" THEN null
    ELSE LET resp == SelectById(o, agentId)
         IN  IF resp.error = null /\ resp.data # null
             THEN Found(enhanceAgentWithDefaults(resp.data))
             ELSE null

-----------------------------------------------------------------------------
(* routeIncomingCall and routeOutboundCall.  The invocation runs from one  *)
(* await to the next in one step: route.pc names the query it awaits,      *)
(* route.issued the queries sent so far, route.outcomes how each resolved, *)
(* route.steps what each completed step of routeIncomingCall returned.     *)

IdleRoute ==
    [fn |-> "idle", pc |-> "idle", calledNumber |-> "", agentId |-> "",
     issued |-> <<>>, outcomes |-> <<>>, steps |-> <<>>, ret |-> null]

\* the invocation sends query q and awaits it
Issue(r, q) == [r EXCEPT !.pc = q, !.issued = Append(@, q)]

\* the awaited query resolved with outcome o; the routing code treats an error
\* result and a rejection alike, so the record keeps "ok" or "failed"
Resolved(r, o) ==
    [r EXCEPT !.outcomes = Append(@, IF o = "ok" THEN "ok" ELSE "failed")]

\* the invocation returns v
Return(r, v) == [r EXCEPT !.pc = "done", !.ret = v]

MutRouteSkipsBusinessHours(r, k, agent) ==
    LET r1 == [r EXCEPT !.steps = Append(@, agent)]
    IN  IF agent # null THEN Return(r1, agent)
        ELSE IF k = 1 THEN Issue(r1, "active_inbound")
        ELSE Return(r1, thisDefaultAgent)

MutRouteDefaultCopy(r, k, agent) ==
    LET r1 == [r EXCEPT !.steps = Append(@, agent)]
    IN  IF agent # null THEN Return(r1, agent)
        ELSE IF k = 1 THEN Issue(r1, "business_hours")
        ELSE IF k = 2 THEN Issue(r1, "active_inbound")
        ELSE Return(r1, NewObject(defaultAgent))

\* routeIncomingCall, lines 57-76, resumed when its step k (1: by phone
\* number, 2: by business hours, 3: any active inbound agent) returned agent
routeIncomingCallAfter(r, k, agent) ==
    LET r1 == [r EXCEPT !.steps = Append(@, agent)]
    IN  IF agent # null THEN Return(r1, agent)
        ELSE IF k = 1 THEN Issue(r1, "business_hours")
        ELSE IF k = 2 THEN Issue(r1, "active_inbound")
        ELSE Return(r1, thisDefaultAgent)

\* routeIncomingCall(callData), lines 50-57 and the catch of lines 78-81:
\* destructuring an absent callData throws
RouteIncomingCall(callData) ==
    /\ route.fn = "idle"
    /\ route' =
         IF callData = null
         THEN Return([route EXCEPT !.fn = "routeIncomingCall"], thisDefaultAgent)
         ELSE Issue([route EXCEPT !.fn = "routeIncomingCall",
                                  !.calledNumber = callData.To],
                    "phone_numbers")
    /\ UNCHANGED <<ai_agents, phone_numbers, call_logs, now, cap, pure>>

\* getAgentByPhoneNumber, lines 116-132: the assignment query resolves
PhoneNumbersResponse(o) ==
    /\ route.fn = "routeIncomingCall"
    /\ route.pc = "phone_numbers"
    /\ LET r == Resolved(route, o)
       IN  route' =
             IF o = "throw" THEN routeIncomingCallAfter(r, 1, null)
             ELSE LET resp == SelectAssignment(o, route.calledNumber)
                  IN  IF AssignmentHit(resp)
                      THEN routeIncomingCallAfter(
                               r, 1, Found(enhanceAgentWithDefaults(resp.data.ai_agents)))
                      ELSE Issue(r, "primary_number")
    /\ UNCHANGED <<ai_agents, phone_numbers, call_logs, now, cap, pure>>

\* getAgentByPhoneNumber, lines 132-148: the primary-number query resolves
PrimaryNumberResponse(o) ==
    /\ route.fn = "routeIncomingCall"
    /\ route.pc = "primary_number"
    /\ route' = routeIncomingCallAfter(Resolved(route, o), 1,
                                       PrimaryResult(o, route.calledNumber))
    /\ UNCHANGED <<ai_agents, phone_numbers, call_logs, now, cap, pure>>

\* getAgentByBusinessHours('inbound'): its query resolves
BusinessHoursResponse(o) ==
    /\ route.fn = "routeIncomingCall"
    /\ route.pc = "business_hours"
    /\ route' = routeIncomingCallAfter(Resolved(route, o), 2,
                                       getAgentByBusinessHours(o, "inbound"))
    /\ UNCHANGED <<ai_agents, phone_numbers, call_logs, now, cap, pure>>

\* getActiveInboundAgent: its query resolves
ActiveInboundResponse(o) ==
    /\ route.fn = "routeIncomingCall"
    /\ route.pc = "active_inbound"
    /\ route' = routeIncomingCallAfter(Resolved(route, o), 3, getActiveInboundAgent(o))
    /\ UNCHANGED <<ai_agents, phone_numbers, call_logs, now, cap, pure>>

\* routeOutboundCall(agentId, callData), lines 92-93 and 101
RouteOutboundCall(agentId) ==
    /\ route.fn = "idle"
    /\ route' =
         LET r == [route EXCEPT !.fn = "routeOutboundCall", !.agentId = agentId]
         IN  IF Len(agentId) # 0 THEN Issue(r, "by_id") ELSE Issue(r, "active_outbound")
    /\ UNCHANGED <<ai_agents, phone_numbers, call_logs, now, cap, pure>>

MutOutboundAcceptsAnyDirection(r, agent) ==
    IF agent # null /\ agent.value.is_active THEN Return(r, agent)
    ELSE Issue(r, "active_outbound")

\* routeOutboundCall, lines 94-101, resumed when getAgentById returned agent
routeOutboundCallAfterById(r, agent) ==
    IF /\ agent # null
       /\ agent.value.is_active
       /\ (agent.value.call_direction = "outbound" \/ agent.value.call_direction = "both")
    THEN Return(r, agent)
    ELSE Issue(r, "active_outbound")

\* getAgentById(agentId): its query resolves
AgentByIdResponse(o) ==
    /\ route.fn = "routeOutboundCall"
    /\ route.pc = "by_id"
    /\ route' = routeOutboundCallAfterById(Resolved(route, o),
                                           getAgentById(o, route.agentId))
    /\ UNCHANGED <<ai_agents, phone_numbers, call_logs, now, cap, pure>>

\* getActiveOutboundAgent: its query resolves; routeOutboundCall, line 102
ActiveOutboundResponse(o) ==
    /\ route.fn = "routeOutboundCall"
    /\ route.pc = "active_outbound"
    /\ LET agent == getActiveOutboundAgent(o)
       IN  route' = Return(Resolved(route, o),
                           IF agent # null THEN agent ELSE thisDefaultAgent)
    /\ UNCHANGED <<ai_agents, phone_numbers, call_logs, now, cap, pure>>

-----------------------------------------------------------------------------
(* The registries and inputs the routing specifications range over *)

\* the most agents a registry holds, for inbound and for outbound routing
MaxAgents == 2
MaxOutboundAgents == 3

\* the ids of the rows of ai_agents, by creation order
Ids == <<"agent-1", "agent-2", "agent-3", "agent-4", "agent-5">>

\* the number every modelled call is placed to
CalledNumber == "+15550100"

Merge(r, s) == [k \in DOMAIN r \cup DOMAIN s |-> IF k \in DOMAIN s THEN s[k] ELSE r[k]]

NoKeys == [k \in {} |-> TRUE]

\* a window that is open at every modelled moment
AllWeek ==
    [business_days |-> <<0, 1, 2, 3, 4, 5, 6>>,
     business_hours_start |-> HHMM(0, 0), business_hours_end |-> HHMM(23, 59)]

Direction(d) == [call_direction |-> d]

\* The agent rows an inbound registry is drawn from: every call_direction
\* (absent, inbound, outbound, both), both agent types, active and inactive
\* rows, rows with stored hours and rows relying on the defaults, rows owning
\* the called number as their primary number.
Profiles ==
    LET general == [agent_type |-> "general", is_active |-> TRUE]
        afterHours == [agent_type |-> "after_hours", is_active |-> TRUE]
        inactive == [agent_type |-> "general", is_active |-> FALSE]
        primary == [twilio_phone_number |-> CalledNumber]
    IN  {Merge(general, d) : d \in {NoKeys, Direction("outbound"), Direction("both")}}
        \cup {Merge(Merge(general, d), AllWeek) :
                d \in {Direction("inbound"), Direction("outbound")}}
        \cup {Merge(afterHours, d) :
                d \in {NoKeys, Direction("outbound"), Direction("both")}}
        \cup {Merge(Merge(afterHours, Direction("inbound")), AllWeek)}
        \cup {Merge(Merge(inactive, Direction("both")), AllWeek)}
        \cup {Merge(Merge(general, d), primary) : d \in {NoKeys, Direction("outbound")}}

\* The agent rows an outbound registry is drawn from: every call_direction,
\* active and inactive rows
OutboundProfiles ==
    LET general == [agent_type |-> "general", is_active |-> TRUE]
        inactive == [agent_type |-> "general", is_active |-> FALSE]
    IN  {Merge(general, d) :
           d \in {NoKeys, Direction("inbound"), Direction("outbound"), Direction("both")}}
        \cup {Merge(inactive, Direction("outbound"))}

Row(i, profile) == Merge([id |-> Ids[i], created_at |-> i], profile)

Registries(max, profiles) ==
    UNION {{[i \in 1..n |-> Row(i, f[i])] : f \in [1..n -> profiles]} : n \in 0..max}

\* Monday 10:00 (inside the default window) and Sunday 10:00 (outside it)
Clocks == {[day |-> 1, hour |-> 10, minute |-> 0], [day |-> 0, hour |-> 10, minute |-> 0]}

\* no assignment of the called number, or one, active or not, to any agent
Assignments(agents) ==
    {{}} \cup {{[phone_number |-> CalledNumber, is_active |-> b, agent_id |-> agents[i].id]} :
                 i \in 1..Len(agents), b \in BOOLEAN}

CallDatas == {null, [From |-> "+15550199", To |-> CalledNumber, CallSid |-> "CA1"]}

\* no agentId, the id of each row, an id of no row
AgentIdArgs == {""} \cup {Ids[i] : i \in 1..Len(ai_agents)} \cup {"agent-0"}

InitInbound ==
    /\ ai_agents \in Registries(MaxAgents, Profiles)
    /\ phone_numbers \in Assignments(ai_agents)
    /\ call_logs = <<>>
    /\ now \in Clocks
    /\ route = IdleRoute
    /\ cap = <<>>
    /\ pure = [fn |-> "idle", args |-> <<>>, ret |-> null]

NextInbound ==
    \/ \E callData \in CallDatas : RouteIncomingCall(callData)
    \/ \E o \in Outcomes : PhoneNumbersResponse(o)
    \/ \E o \in Outcomes : PrimaryNumberResponse(o)
    \/ \E o \in Outcomes : BusinessHoursResponse(o)
    \/ \E o \in Outcomes : ActiveInboundResponse(o)

SpecInbound == InitInbound /\ [][NextInbound]_vars

InitOutbound ==
    /\ ai_agents \in Registries(MaxOutboundAgents, OutboundProfiles)
    /\ phone_numbers = {}
    /\ call_logs = <<>>
    /\ now \in Clocks
    /\ route = IdleRoute
    /\ cap = <<>>
    /\ pure = [fn |-> "idle", args |-> <<>>, ret |-> null]

NextOutbound ==
    \/ \E agentId \in AgentIdArgs : RouteOutboundCall(agentId)
    \/ \E o \in Outcomes : AgentByIdResponse(o)
    \/ \E o \in Outcomes : ActiveOutboundResponse(o)

SpecOutbound == InitOutbound /\ [][NextOutbound]_vars

-----------------------------------------------------------------------------
(* Properties of routeIncomingCall (SpecInbound) *)

\* routeIncomingCall was called with call data and has returned
InboundDone == route.fn = "routeIncomingCall" /\ route.pc = "done" /\ route.issued # <<>>

\* query q was sent and resolved without error
Ok(q) ==
    \E i \in 1..Len(route.outcomes) : route.issued[i] = q /\ route.outcomes[i] = "ok"

Issued(q) == \E i \in 1..Len(route.issued) : route.issued[i] = q

\* the step of routeIncomingCall a query belongs to, and its place in the chain
StepOf(q) ==
    CASE q = "phone_numbers" -> 1
      [] q = "primary_number" -> 1
      [] q = "business_hours" -> 2
      [] q = "active_inbound" -> 3

PlaceOf(q) ==
    CASE q = "phone_numbers" -> 1
      [] q = "primary_number" -> 2
      [] q = "business_hours" -> 3
      [] q = "active_inbound" -> 4

\* the agent the called number is assigned to by an active assignment, or null
AssignedAgent ==
    IF \E r \in phone_numbers : r.phone_number = CalledNumber /\ r.is_active
    THEN AgentOf((CHOOSE r \in phone_numbers :
                    r.phone_number = CalledNumber /\ r.is_active).agent_id)
    ELSE null

\* what each step produces, given how its queries resolved: found, not found
\* or store error
Produced(k) ==
    CASE k = 1 ->
           IF Ok("phone_numbers") /\ AssignedAgent # null /\ AssignedAgent.is_active
           THEN NewObject(enhanceAgentWithDefaults(AssignedAgent))
           ELSE IF Ok("primary_number") THEN PrimaryResult("ok", CalledNumber)
           ELSE null
      [] k = 2 ->
           IF Ok("business_hours") THEN getAgentByBusinessHours("ok", "inbound") ELSE null
      [] k = 3 ->
           IF Ok("active_inbound") THEN getActiveInboundAgent("ok") ELSE null

\* C1: routeIncomingCall tries its steps in strict order (assignment table, then
\* primary number, then business hours, then any active inbound agent, then the
\* Default Agent); it returns what the lowest-numbered successful step produced,
\* and once a step has succeeded no query of a later step is sent.
C1_StrictOrder ==
    (route.fn = "routeIncomingCall" /\ route.issued # <<>>) =>
        LET n == Len(route.steps)
        IN  /\ route.issued[1] = "phone_numbers"
            /\ \A i \in 1..(Len(route.issued) - 1) :
                 /\ PlaceOf(route.issued[i]) < PlaceOf(route.issued[i + 1])
                 /\ StepOf(route.issued[i + 1]) <= StepOf(route.issued[i]) + 1
            /\ Issued("primary_number") =>
                 ~(Ok("phone_numbers") /\ AssignedAgent # null /\ AssignedAgent.is_active)
            /\ \A q \in {"business_hours", "active_inbound"} :
                 Issued(q) => (n >= StepOf(q) - 1 /\ \A k \in 1..(StepOf(q) - 1) : route.steps[k] = null)
            /\ \A k \in 1..n :
                 /\ route.steps[k] = Produced(k)
                 /\ route.steps[k] # null =>
                      /\ k = n
                      /\ route.pc = "done"
                      /\ route.ret = route.steps[k]
                      /\ \A i \in 1..Len(route.issued) : StepOf(route.issued[i]) <= k
            /\ route.pc = "done" =>
                 /\ n >= 1
                 /\ route.steps[n] = null => (n = 3 /\ route.ret = thisDefaultAgent)

\* step 1 found nothing, step 2 produced the agent returned, and step 3, never
\* asked, would have produced another one
C1_Witness ==
    /\ InboundDone
    /\ Len(route.steps) = 2
    /\ route.steps[1] = null
    /\ route.steps[2] # null
    /\ route.ret = route.steps[2]
    /\ ~Issued("active_inbound")
    /\ getActiveInboundAgent("ok") # null
    /\ getActiveInboundAgent("ok") # route.ret

AllFailed == \A i \in 1..Len(route.outcomes) : route.outcomes[i] = "failed"

\* C2: when every lookup routeIncomingCall makes fails (an error result or a
\* rejection), it goes through all its steps, raises nothing and returns the
\* Default Agent object itself, not a copy and not another agent.  (A rejected
\* assignment query ends step 1 at once; an error result still tries the primary
\* number.)
C2_AllLookupsFail ==
    (route.fn = "routeIncomingCall" /\ AllFailed) =>
        /\ route.pc \in {"phone_numbers", "primary_number", "business_hours",
                         "active_inbound", "done"}
        /\ route.pc = "done" =>
             /\ route.ret = thisDefaultAgent
             /\ route.issued \in
                  {<<>>,
                   <<"phone_numbers", "business_hours", "active_inbound">>,
                   <<"phone_numbers", "primary_number", "business_hours", "active_inbound">>}
        /\ Issued("active_inbound") /\ Len(route.outcomes) = Len(route.issued) =>
             route.pc = "done"

\* all four lookups failed although the registry holds an assignment and an
\* active inbound agent
C2_Witness ==
    /\ InboundDone
    /\ AllFailed
    /\ Len(route.outcomes) = 4
    /\ AssignedAgent # null
    /\ getActiveInboundAgent("ok") # null
    /\ route.ret = thisDefaultAgent

\* C4 as stated: when an assignment of the called number exists (and its lookup
\* succeeds), routeIncomingCall returns the assigned agent, enhanced.
C4_Original ==
    (InboundDone /\ Ok("phone_numbers") /\ AssignedAgent # null) =>
        route.ret = NewObject(enhanceAgentWithDefaults(AssignedAgent))

\* C4, amended: when an active assignment of the called number to an active agent
\* exists and its lookup succeeds, routeIncomingCall returns the assigned agent,
\* enhanced, whatever its hours, days and direction and whatever other agents exist.
C4_ActiveAssignmentWins ==
    (InboundDone /\ Ok("phone_numbers") /\ AssignedAgent # null /\ AssignedAgent.is_active) =>
        /\ route.ret = NewObject(enhanceAgentWithDefaults(AssignedAgent))
        /\ route.issued = <<"phone_numbers">>

\* the assigned agent is outbound-only and outside its hours, and a newer inbound
\* agent inside its hours exists
C4_Witness ==
    /\ InboundDone
    /\ Ok("phone_numbers")
    /\ AssignedAgent # null
    /\ AssignedAgent.is_active
    /\ route.ret = NewObject(enhanceAgentWithDefaults(AssignedAgent))
    /\ route.ret.value.call_direction = "outbound"
    /\ ~isAgentAvailable(route.ret.value, now.day, HHMM(now.hour, now.minute))
    /\ getAgentByBusinessHours("ok", "inbound") # null
    /\ getAgentByBusinessHours("ok", "inbound").value.created_at > AssignedAgent.created_at

ActiveAgents == {a \in AgentRows : a.is_active}

\* no assignment and no primary-number owner of the called number, no active
\* agent inside its window, exactly one active after_hours agent
AfterHoursCase ==
    /\ \A r \in phone_numbers : r.phone_number # CalledNumber
    /\ \A a \in ActiveAgents :
         /\ "twilio_phone_number" \notin DOMAIN a
         /\ ~isAgentAvailable(enhanceAgentWithDefaults(a), now.day,
                              HHMM(now.hour, now.minute))
    /\ Cardinality({a \in ActiveAgents : a.agent_type = "after_hours"}) = 1

TheAfterHoursAgent == CHOOSE a \in ActiveAgents : a.agent_type = "after_hours"

\* C5 as stated: in the after-hours case (every lookup succeeding),
\* routeIncomingCall returns the after_hours agent whatever its call_direction.
C5_Original ==
    (InboundDone /\ AfterHoursCase /\ \A i \in 1..Len(route.outcomes) : route.outcomes[i] = "ok") =>
        route.ret = NewObject(enhanceAgentWithDefaults(TheAfterHoursAgent))

\* C5, amended: in the after-hours case, when the after_hours agent's effective
\* call_direction is inbound or both and the business-hours lookup succeeds,
\* routeIncomingCall returns that agent, wherever it stands in creation order.
C5_AfterHoursFallback ==
    (/\ InboundDone
     /\ AfterHoursCase
     /\ Ok("business_hours")
     /\ InboundCapable(enhanceAgentWithDefaults(TheAfterHoursAgent))) =>
        route.ret = NewObject(enhanceAgentWithDefaults(TheAfterHoursAgent))

\* the after_hours agent is returned although a newer active inbound agent exists
C5_Witness ==
    /\ InboundDone
    /\ AfterHoursCase
    /\ Ok("business_hours")
    /\ route.ret = NewObject(enhanceAgentWithDefaults(TheAfterHoursAgent))
    /\ getActiveInboundAgent("ok") # route.ret
    /\ getActiveInboundAgent("ok").value.created_at > TheAfterHoursAgent.created_at

-----------------------------------------------------------------------------
(* Properties of routeOutboundCall (SpecOutbound) *)

OutboundDone == route.fn = "routeOutboundCall" /\ route.pc = "done"

\* the active agents whose effective direction is outbound or both
OutboundCandidates ==
    {a \in ActiveAgents : OutboundCapable(enhanceAgentWithDefaults(a))}

\* the most recently created of them
NewestOutbound ==
    CHOOSE a \in OutboundCandidates :
        \A b \in OutboundCandidates : b.created_at <= a.created_at

\* the agent routeOutboundCall was asked for is an active row whose effective
\* call_direction is inbound
RequestedIsInboundOnly ==
    /\ AgentOf(route.agentId) # null
    /\ AgentOf(route.agentId).is_active
    /\ enhanceAgentWithDefaults(AgentOf(route.agentId)).call_direction = "inbound"

\* C6: routeOutboundCall(agentId), for an active agent whose effective direction
\* is inbound, never returns that agent: it goes on to the general outbound
\* search and returns the newest active outbound-capable agent if one exists,
\* otherwise (none exists, or the search fails) the Default Agent.
C6_InboundAgentNotUsedOutbound ==
    (OutboundDone /\ RequestedIsInboundOnly) =>
        /\ route.ret.value.id # route.agentId
        /\ route.issued = <<"by_id", "active_outbound">>
        /\ route.ret =
             IF Ok("active_outbound") /\ OutboundCandidates # {}
             THEN NewObject(enhanceAgentWithDefaults(NewestOutbound))
             ELSE thisDefaultAgent

\* the requested inbound agent is the newest row, two older outbound-capable
\* agents exist and the newer of the two is returned
C6_Witness ==
    /\ OutboundDone
    /\ RequestedIsInboundOnly
    /\ Ok("by_id")
    /\ Cardinality(OutboundCandidates) = 2
    /\ AgentOf(route.agentId).created_at > NewestOutbound.created_at
    /\ route.ret = NewObject(enhanceAgentWithDefaults(NewestOutbound))

-----------------------------------------------------------------------------
(* The pure methods, applied to inputs drawn from bounded sets (SpecPure) *)

IdlePure == [fn |-> "idle", args |-> <<>>, ret |-> null]

\* enhanceAgentWithDefaults(agent)
EnhanceAgentWithDefaults(agent) ==
    /\ pure.fn = "idle"
    /\ pure' = [fn |-> "enhanceAgentWithDefaults", args |-> <<agent>>,
                ret |-> enhanceAgentWithDefaults(agent)]
    /\ UNCHANGED <<ai_agents, phone_numbers, call_logs, now, route, cap>>

\* isAgentAvailable(agent, currentDay, currentTime)
IsAgentAvailable(agent, currentDay, currentTime) ==
    /\ pure.fn = "idle"
    /\ pure' = [fn |-> "isAgentAvailable", args |-> <<agent, currentDay, currentTime>>,
                ret |-> isAgentAvailable(agent, currentDay, currentTime)]
    /\ UNCHANGED <<ai_agents, phone_numbers, call_logs, now, route, cap>>

Restrict(r, keys) == [k \in keys |-> r[k]]

\* Agents whose five routing keys are each absent, empty or set: '' for the
\* strings, [] for the days
RawAgents ==
    LET stored ==
          [call_direction : {"", "outbound", "both"},
           timezone : {"", "UTC"},
           business_hours_start : {<<>>, HHMM(0, 0), HHMM(10, 1)},
           business_hours_end : {<<>>, HHMM(8, 59), HHMM(23, 59)},
           business_days : {<<>>, <<0, 6>>}]
        row == [id |-> "agent-1", agent_type |-> "general", is_active |-> TRUE]
    IN  {Merge(row, Restrict(r, keys)) : r \in stored, keys \in SUBSET RoutingFields}

EnhancedAgents == {enhanceAgentWithDefaults(a) : a \in RawAgents}

\* the local times of day tried: midnight, both bounds of the default window and
\* the minutes next to them, the last minute of the day
TimesOfDay == {HHMM(h, m) : h \in {0, 8, 9, 10, 17, 23}, m \in {0, 1, 59}}

InitPure ==
    /\ ai_agents = <<>>
    /\ phone_numbers = {}
    /\ call_logs = <<>>
    /\ now = [day |-> 1, hour |-> 10, minute |-> 0]
    /\ route = IdleRoute
    /\ cap = <<>>
    /\ pure = IdlePure

NextPure ==
    \/ \E agent \in RawAgents \cup {null} : EnhanceAgentWithDefaults(agent)
    \/ \E agent \in EnhancedAgents, currentDay \in 0..6, currentTime \in TimesOfDay :
         IsAgentAvailable(agent, currentDay, currentTime)

SpecPure == InitPure /\ [][NextPure]_vars

\* the minute of the day a zero-padded "HH:MM" string denotes
MinuteOfDay(t) ==
    ((t[1] - 48) * 10 + (t[2] - 48)) * 60 + (t[4] - 48) * 10 + (t[5] - 48)

\* C8: isAgentAvailable(agent, weekday, time) is true exactly when weekday is one
\* of the agent's business_days and the time of day lies between
\* business_hours_start and business_hours_end, both bounds included (for
\* Monday in the default window: 08:59 false, 09:00 true, 17:00 true, 17:01
\* false), for every weekday 0..6 and every enhanced agent.
C8_AvailableIffInWindow ==
    pure.fn = "isAgentAvailable" =>
        LET agent == pure.args[1]
            weekday == pure.args[2]
            time == pure.args[3]
            defaultWindow ==
                /\ agent.business_days = <<1, 2, 3, 4, 5>>
                /\ agent.business_hours_start = <<48, 57, 58, 48, 48>>
                /\ agent.business_hours_end = <<49, 55, 58, 48, 48>>
        IN  /\ pure.ret =
                 (/\ \E i \in 1..Len(agent.business_days) : agent.business_days[i] = weekday
                  /\ MinuteOfDay(agent.business_hours_start) <= MinuteOfDay(time)
                  /\ MinuteOfDay(time) <= MinuteOfDay(agent.business_hours_end))
            /\ (defaultWindow /\ weekday = 1) =>
                 /\ time = <<48, 56, 58, 53, 57>> => pure.ret = FALSE
                 /\ time = <<48, 57, 58, 48, 48>> => pure.ret = TRUE
                 /\ time = <<49, 55, 58, 48, 48>> => pure.ret = TRUE
                 /\ time = <<49, 55, 58, 48, 49>> => pure.ret = FALSE

\* Monday 17:00, the closing minute of the default window: available
C8_Witness ==
    /\ pure.fn = "isAgentAvailable"
    /\ pure.args[1].business_days = <<1, 2, 3, 4, 5>>
    /\ pure.args[1].business_hours_end = <<49, 55, 58, 48, 48>>
    /\ pure.args[2] = 1
    /\ pure.args[3] = <<49, 55, 58, 48, 48>>
    /\ pure.ret = TRUE

\* C9 as stated: enhanceAgentWithDefaults leaves every field present in its
\* input with its input value.
C9_Original ==
    (pure.fn = "enhanceAgentWithDefaults" /\ pure.args[1] # null) =>
        \A k \in DOMAIN pure.args[1] : pure.ret[k] = pure.args[1][k]

\* the defaults of the five routing fields
RoutingDefaults ==
    [call_direction |-> "inbound", timezone |-> "America/New_York",
     business_hours_start |-> <<48, 57, 58, 48, 48>>,
     business_hours_end |-> <<49, 55, 58, 48, 48>>,
     business_days |-> <<1, 2, 3, 4, 5>>]

\* a routing field the input lacks, or holds as an empty string
MissingOrEmpty(agent, k) ==
    \/ k \notin DOMAIN agent
    \/ k # "business_days" /\ Len(agent[k]) = 0

\* C9, amended: enhanceAgentWithDefaults returns null for null; otherwise it
\* returns the input's fields plus the five routing fields, giving its default
\* to each routing field that is missing or empty ('') in the input and the
\* input's value to every other field (an empty business_days array is kept),
\* so that all five routing fields are defined in the result.
C9_FillsMissingOrEmpty ==
    pure.fn = "enhanceAgentWithDefaults" =>
        LET agent == pure.args[1]
        IN  IF agent = null THEN pure.ret = null
            ELSE /\ pure.ret # null
                 /\ DOMAIN pure.ret = DOMAIN agent \cup RoutingFields
                 /\ \A k \in DOMAIN pure.ret :
                      pure.ret[k] =
                        IF k \in RoutingFields /\ MissingOrEmpty(agent, k)
                        THEN RoutingDefaults[k]
                        ELSE agent[k]

\* a stored direction and an empty days array are kept, a missing timezone and
\* an empty start time are filled
C9_Witness ==
    /\ pure.fn = "enhanceAgentWithDefaults"
    /\ pure.args[1] # null
    /\ DOMAIN pure.args[1] =
         {"id", "agent_type", "is_active", "call_direction", "business_days",
          "business_hours_start"}
    /\ pure.args[1].call_direction = "outbound"
    /\ pure.args[1].business_days = <<>>
    /\ pure.args[1].business_hours_start = <<>>
    /\ pure.ret.call_direction = "outbound"
    /\ pure.ret.business_days = <<>>
    /\ pure.ret.business_hours_start = <<48, 57, 58, 48, 48>>
    /\ pure.ret.timezone = "America/New_York"
    /\ pure.ret.id = "agent-1"

-----------------------------------------------------------------------------
(* canAgentHandleCall and logCallRouting (SpecCapacity).  Each admission c *)
(* of a call logs its routing decision, asks canAgentHandleCall and, when  *)
(* permitted, is later marked 'in-progress' and then 'completed' by the    *)
(* call-lifecycle process, which is outside this service.                  *)

\* the most admissions in flight at once
MaxCalls == 2

Admissions == 1..MaxCalls

NewAdmission ==
    [pc |-> "new", agentId |-> "", agent |-> null, limitOutcome |-> "none",
     countOutcome |-> "none", currentCalls |-> 0, ret |-> FALSE]

\* from('ai_agents').select('max_concurrent_calls').eq('id', id).single()
SelectLimit(o, id) ==
    Single(o, {Restrict(a, {"max_concurrent_calls"} \cap DOMAIN a) :
               a \in {x \in AgentRows : x.id = id}})

\* from('call_logs').select('id').eq('agent_id', id).eq('call_status', 'in-progress')
SelectInProgress(o, id) ==
    Resolve(o, SelectSeq(call_logs,
                         LAMBDA r : r.agent_id = id /\ r.call_status = "in-progress"))

\* logCallRouting(callSid, agentId, routingReason), lines 394-412: the insert
\* resolves; an error or a rejection is logged and swallowed
LogCallRouting(c, agentId, o) ==
    /\ cap[c].pc = "new"
    /\ call_logs' =
         IF o = "ok"
         THEN Append(call_logs,
                     [call_sid |-> c, agent_id |-> agentId, call_status |-> "routing"])
         ELSE call_logs
    /\ cap' = [cap EXCEPT ![c].pc = "logged", ![c].agentId = agentId]
    /\ UNCHANGED <<ai_agents, phone_numbers, now, route, pure>>

\* canAgentHandleCall(agentId), lines 354-361: the limit query is sent
CanAgentHandleCall(c) ==
    /\ cap[c].pc = "logged"
    /\ cap' = [cap EXCEPT ![c].pc = "limit"]
    /\ UNCHANGED <<ai_agents, phone_numbers, call_logs, now, route, pure>>

\* canAgentHandleCall, lines 357-372 and the catch of lines 385-388: the limit
\* query resolves
LimitResponse(c, o) ==
    /\ cap[c].pc = "limit"
    /\ cap' =
         IF o = "throw"
         THEN [cap EXCEPT ![c].pc = "decided", ![c].limitOutcome = o, ![c].ret = TRUE]
         ELSE LET resp == SelectLimit(o, cap[c].agentId)
              IN  IF resp.error # null \/ resp.data = null
                  THEN [cap EXCEPT ![c].pc = "decided", ![c].limitOutcome = o,
                                   ![c].ret = FALSE]
                  ELSE [cap EXCEPT ![c].pc = "count", ![c].limitOutcome = o,
                                   ![c].agent = resp.data]
    /\ UNCHANGED <<ai_agents, phone_numbers, call_logs, now, route, pure>>

MutCapacityInclusive(agent, activeCalls) ==
    LET currentCalls == Len(activeCalls)
        maxCalls == OrNumber(agent, "max_concurrent_calls", 5)
    IN  currentCalls <= maxCalls

\* canAgentHandleCall, lines 379-383
HasCapacity(agent, activeCalls) ==
    LET currentCalls == Len(activeCalls)
        maxCalls == OrNumber(agent, "max_concurrent_calls", 5)
    IN  currentCalls < maxCalls

\* canAgentHandleCall, lines 368-388: the count query resolves
CountResponse(c, o) ==
    /\ cap[c].pc = "count"
    /\ cap' =
         IF o = "throw"
         THEN [cap EXCEPT ![c].pc = "decided", ![c].countOutcome = o, ![c].ret = TRUE]
         ELSE LET resp == SelectInProgress(o, cap[c].agentId)
              IN  IF resp.error # null
                  THEN [cap EXCEPT ![c].pc = "decided", ![c].countOutcome = o,
                                   ![c].ret = TRUE]
                  ELSE [cap EXCEPT ![c].pc = "decided", ![c].countOutcome = o,
                                   ![c].currentCalls = Len(resp.data),
                                   ![c].ret = HasCapacity(cap[c].agent, resp.data)]
    /\ UNCHANGED <<ai_agents, phone_numbers, call_logs, now, route, pure>>

\* the rows of call c set to status
SetStatus(logs, c, status) ==
    [i \in 1..Len(logs) |->
       IF logs[i].call_sid = c THEN [logs[i] EXCEPT !.call_status = status] ELSE logs[i]]

\* the call-lifecycle process marks a permitted call 'in-progress'
CallStarts(c) ==
    /\ cap[c].pc = "decided"
    /\ cap[c].ret = TRUE
    /\ call_logs' = SetStatus(call_logs, c, "in-progress")
    /\ cap' = [cap EXCEPT ![c].pc = "in-progress"]
    /\ UNCHANGED <<ai_agents, phone_numbers, now, route, pure>>

\* the call-lifecycle process marks a call in progress 'completed'
CallEnds(c) ==
    /\ cap[c].pc = "in-progress"
    /\ call_logs' = SetStatus(call_logs, c, "completed")
    /\ cap' = [cap EXCEPT ![c].pc = "completed"]
    /\ UNCHANGED <<ai_agents, phone_numbers, now, route, pure>>

\* one agent, with no stored limit or a limit of 0, 1 or 2
CapacityRegistries ==
    LET row == [id |-> "agent-1", created_at |-> 1, agent_type |-> "general",
                is_active |-> TRUE]
    IN  {<<row>>} \cup {<<Merge(row, [max_concurrent_calls |-> m])>> : m \in 0..2}

InitCapacity ==
    /\ ai_agents \in CapacityRegistries
    /\ phone_numbers = {}
    /\ call_logs = <<>>
    /\ now = [day |-> 1, hour |-> 10, minute |-> 0]
    /\ route = IdleRoute
    /\ cap = [c \in Admissions |-> NewAdmission]
    /\ pure = IdlePure

NextCapacity ==
    \/ \E c \in Admissions, agentId \in {"agent-1", "agent-0"}, o \in Outcomes :
         LogCallRouting(c, agentId, o)
    \/ \E c \in Admissions : CanAgentHandleCall(c)
    \/ \E c \in Admissions, o \in Outcomes : LimitResponse(c, o)
    \/ \E c \in Admissions, o \in Outcomes : CountResponse(c, o)
    \/ \E c \in Admissions : CallStarts(c)
    \/ \E c \in Admissions : CallEnds(c)

SpecCapacity == InitCapacity /\ [][NextCapacity]_vars

\* canAgentHandleCall of admission c has returned
Decided(c) == cap[c].pc \in {"decided", "in-progress", "completed"}

\* C3: canAgentHandleCall returns true whenever one of its two lookups (the limit
\* lookup, the in-progress count) errors.
C3_FailsOpen ==
    \A c \in Admissions :
        (/\ Decided(c)
         /\ (cap[c].limitOutcome \in {"error", "throw"}
             \/ cap[c].countOutcome \in {"error", "throw"})) =>
            cap[c].ret = TRUE

\* C7: when both lookups succeed and a limit max >= 0 is stored,
\* canAgentHandleCall returns currentCount < max.
C7_CountBelowStoredLimit ==
    \A c \in Admissions :
        (/\ Decided(c)
         /\ cap[c].limitOutcome = "ok"
         /\ cap[c].countOutcome = "ok"
         /\ "max_concurrent_calls" \in DOMAIN cap[c].agent) =>
            cap[c].ret = (cap[c].currentCalls < cap[c].agent.max_concurrent_calls)

\* the in-progress calls of an agent
InProgress(id) ==
    Len(SelectSeq(call_logs, LAMBDA r : r.agent_id = id /\ r.call_status = "in-progress"))

\* C10: the capacity check counts, then decides, and reserves nothing: the step
\* that decides leaves call_logs as it is and permits exactly when the
\* in-progress calls it counts at that moment are below the limit (5 when none
\* is stored), whatever other admissions have been permitted and not yet
\* started.  Interleaved admissions can therefore all be permitted and bring the
\* in-progress calls of an agent above max_concurrent_calls.
C10_CountThenDecide ==
    [][\A c \in Admissions :
         (cap[c].pc = "count" /\ cap'[c].pc = "decided") =>
            /\ call_logs' = call_logs
            /\ cap'[c].countOutcome = "ok" =>
                 cap'[c].ret =
                   (InProgress(cap[c].agentId)
                      < (IF "max_concurrent_calls" \in DOMAIN cap[c].agent
                            /\ cap[c].agent.max_concurrent_calls # 0
                         THEN cap[c].agent.max_concurrent_calls
                         ELSE 5))]_vars

\* two admissions of one agent with limit 1, both permitted on successful
\* lookups, both in progress
C10_Witness ==
    /\ "max_concurrent_calls" \in DOMAIN ai_agents[1]
    /\ ai_agents[1].max_concurrent_calls = 1
    /\ InProgress("agent-1") > ai_agents[1].max_concurrent_calls
    /\ \A c \in Admissions :
         cap[c].pc = "in-progress" =>
            /\ cap[c].limitOutcome = "ok"
            /\ cap[c].countOutcome = "ok"
            /\ cap[c].currentCalls = 0
            /\ cap[c].ret = TRUE

====
